---- MODULE Spec2Model ----
(***************************************************************************)
(* State-machine model of the Snake game logic of src/app.py: the session  *)
(* state written by init_game, and the operations init_game,               *)
(* turn_direction and move_snake (reset, setHeading and tick in spec.md).  *)
(* Rendering, the keyboard component and the rerun plumbing hold no game   *)
(* state and are left out.                                                 *)
(***************************************************************************)
EXTENDS Integers, Sequences, FiniteSets, TLC

\* ------------------------------------------------------------------ bounds
\* Largest grid_size handed to init_game (the program itself passes 20).
MaxGrid == 4
\* Longest snake explored: an eating move is taken only below this length.
MaxLen == 4
\* Number of concurrent turn_direction / move_snake pairs run one after another.
MaxRaces == 2

\* The grid sizes explored. 2 and 3 are below what the initial snake needs.
GridSizes == 2..MaxGrid

\* ------------------------------------------------------------------- state
VARIABLES
    grid_size,   \* st.session_state.grid_size
    snake,       \* st.session_state.snake: sequence of cells <<x, y>>, head first
    direction,   \* st.session_state.direction
    apple,       \* st.session_state.apple
    score,       \* st.session_state.score
    game_over,   \* st.session_state.game_over
    speed,       \* st.session_state.speed
    hung,        \* TRUE once a call is stuck in place_apple's `while True`
    last,        \* history: the last operation, its argument and the state it ran in
    race         \* two calls run at once: where each one is, and its local variables

vars == <<grid_size, snake, direction, apple, score, game_over, speed, hung, last, race>>

Directions == {"UP", "DOWN", "LEFT", "RIGHT"}

\* The cells of a sequence of cells.
Cells(s) == {s[i] : i \in 1..Len(s)}

\* range(grid_size) x range(grid_size): the cells random.randrange can draw.
Grid(g) == (0..(g - 1)) \X (0..(g - 1))

\* The session state as one record (what `last.pre` remembers).
State ==
    [grid_size |-> grid_size, snake |-> snake, direction |-> direction,
     apple |-> apple, score |-> score, game_over |-> game_over, speed |-> speed]

\* `last.pre` of an init_game step: init_game reads nothing of the old state.
NoState ==
    [grid_size |-> 0, snake |-> <<>>, direction |-> "RIGHT",
     apple |-> <<0, 0>>, score |-> 0, game_over |-> FALSE, speed |-> 0]

\* No call is running: every call of Spec and TourSpec runs from its first
\* line to its last with no other call in between.
NoRace ==
    [t |-> "idle", m |-> "idle", n |-> 0, new_dir |-> "", cur |-> "",
     snake |-> <<>>, d |-> "", new_head |-> <<>>, grid |-> 0, score |-> 0]

\* ------------------------------------------------------------- place_apple
\* place_apple ignoring the snake (mutant).
place_apple_any(g, s) == Grid(g)

\* place_apple tested against the snake without its first cell (mutant).
place_apple_stale(g, s) == {pos \in Grid(g) : pos \notin Cells(Tail(s))}

\* place_apple drawing from range(grid_size + 1) (mutant).
place_apple_wide(g, s) == {pos \in Grid(g + 1) : pos \notin Cells(s)}

\* The cells place_apple(grid_size, snake) can return: it redraws until the
\* drawn cell is not in the snake. Empty means the loop never ends.
place_apple(g, s) == {pos \in Grid(g) : pos \notin Cells(s)}

\* --------------------------------------------------------------- init_game
\* The initial snake shifted one cell toward lower x (mutant).
init_snake_shifted(g) ==
    LET mid == g \div 2
    IN  <<<<mid - 1, mid>>, <<mid - 2, mid>>, <<mid - 3, mid>>>>

\* The initial snake laid along y instead of x (mutant).
init_snake_vertical(g) ==
    LET mid == g \div 2
    IN  <<<<mid, mid>>, <<mid, mid - 1>>, <<mid, mid - 2>>>>

\* Lines 14-15: mid = grid_size // 2; snake = [(mid, mid), (mid-1, mid), (mid-2, mid)].
init_snake(g) ==
    LET mid == g \div 2
    IN  <<<<mid, mid>>, <<mid - 1, mid>>, <<mid - 2, mid>>>>

\* The session state init_game(g) writes, for each apple place_apple can return.
InitState(g) ==
    /\ grid_size = g
    /\ snake = init_snake(g)
    /\ direction = "RIGHT"
    /\ apple \in place_apple(g, init_snake(g))
    /\ score = 0
    /\ game_over = FALSE
    /\ speed = 6
    /\ hung = FALSE
    /\ last = [op |-> "init_game", arg |-> g, pre |-> NoState]

Init == race = NoRace /\ \E g \in GridSizes : InitState(g)

\* What `last.pre` keeps of the state init_game was called in: only whether
\* that game was over (init_game itself reads none of it).
ResetFrom == [NoState EXCEPT !.game_over = game_over]

\* init_game without the "game_over": False entry of line 24 (mutant).
init_game_keep_over(g) ==
    /\ ~hung
    /\ grid_size' = g
    /\ snake' = init_snake(g)
    /\ direction' = "RIGHT"
    /\ apple' \in place_apple(g, init_snake(g))
    /\ score' = 0
    /\ game_over' = game_over
    /\ speed' = 6
    /\ hung' = FALSE
    /\ last' = [op |-> "init_game", arg |-> g, pre |-> ResetFrom]

\* init_game(g), called again from any state.
init_game(g) ==
    /\ ~hung
    /\ grid_size' = g
    /\ snake' = init_snake(g)
    /\ direction' = "RIGHT"
    /\ apple' \in place_apple(g, init_snake(g))
    /\ score' = 0
    /\ game_over' = FALSE
    /\ speed' = 6
    /\ hung' = FALSE
    /\ last' = [op |-> "init_game", arg |-> g, pre |-> ResetFrom]

\* ---------------------------------------------------------- turn_direction
\* Line 38: the opposites dictionary.
opposites(d) ==
    CASE d = "UP" -> "DOWN"
      [] d = "DOWN" -> "UP"
      [] d = "LEFT" -> "RIGHT"
      [] d = "RIGHT" -> "LEFT"

\* turn_direction without the reversal test (mutant).
next_direction_no_filter(cur, new_dir) == new_dir

\* Lines 39-42: the direction after turn_direction(new_dir) when it was cur.
next_direction(cur, new_dir) ==
    IF new_dir = cur \/ new_dir = opposites(cur) THEN cur ELSE new_dir

\* turn_direction that also resumes a finished game (mutant).
turn_direction_resume(new_dir) ==
    /\ ~hung
    /\ direction' = next_direction(direction, new_dir)
    /\ game_over' = FALSE
    /\ last' = [op |-> "turn_direction", arg |-> new_dir, pre |-> State]
    /\ UNCHANGED <<grid_size, snake, apple, score, speed, hung>>

turn_direction(new_dir) ==
    /\ ~hung
    /\ direction' = next_direction(direction, new_dir)
    /\ last' = [op |-> "turn_direction", arg |-> new_dir, pre |-> State]
    /\ UNCHANGED <<grid_size, snake, apple, score, game_over, speed, hung>>

\* -------------------------------------------------------------- move_snake
\* new_head with the y axis upside down (mutant).
new_head_flipped(head, d) ==
    IF d = "UP" THEN <<head[1], head[2] + 1>>
    ELSE IF d = "DOWN" THEN <<head[1], head[2] - 1>>
    ELSE IF d = "LEFT" THEN <<head[1] - 1, head[2]>>
    ELSE <<head[1] + 1, head[2]>>

\* Lines 50-59: the head moved one cell by the direction; the final `else`
\* takes every direction that is not UP, DOWN or LEFT.
new_head(head, d) ==
    IF d = "UP" THEN <<head[1], head[2] - 1>>
    ELSE IF d = "DOWN" THEN <<head[1], head[2] + 1>>
    ELSE IF d = "LEFT" THEN <<head[1] - 1, head[2]>>
    ELSE <<head[1] + 1, head[2]>>

\* The collision test with the upper walls one cell too far (mutant).
collision_wide(nh, s, grid) ==
    \/ nh[1] < 0 \/ nh[2] < 0 \/ nh[1] > grid \/ nh[2] > grid
    \/ nh \in Cells(s)

\* The collision test without the tail cell (mutant).
collision_no_tail(nh, s, grid) ==
    \/ nh[1] < 0 \/ nh[2] < 0 \/ nh[1] >= grid \/ nh[2] >= grid
    \/ nh \in Cells(SubSeq(s, 1, Len(s) - 1))

\* The collision test without the snake (mutant).
collision_walls_only(nh, s, grid) ==
    nh[1] < 0 \/ nh[2] < 0 \/ nh[1] >= grid \/ nh[2] >= grid

\* Line 64: x < 0 or y < 0 or x >= grid or y >= grid or new_head in snake,
\* snake being the copy of the whole current snake, tail included.
collision(nh, s, grid) ==
    \/ nh[1] < 0 \/ nh[2] < 0 \/ nh[1] >= grid \/ nh[2] >= grid
    \/ nh \in Cells(s)

\* move_snake without line 73 (mutant).
pop_skipped(s) == s

\* Line 73: snake.pop().
pop(s) == SubSeq(s, 1, Len(s) - 1)

\* Ten points for an apple (mutant).
add_score_ten(s) == s + 10

\* Line 70: st.session_state.score += 1.
add_score(s) == s + 1

\* The steps of move_snake from line 49 on, with or without the game_over
\* test; an eating move is explored only while the snake is shorter than cap.
move_snake_body(cap) ==
    LET nh == new_head(snake[1], direction)
        grown == <<nh>> \o snake      \* line 68: snake.insert(0, new_head)
    IN  IF collision(nh, snake, grid_size)
        THEN /\ game_over' = TRUE
             /\ UNCHANGED <<snake, apple, score, hung>>
        ELSE IF nh = apple
        THEN /\ Len(snake) < cap
             /\ score' = add_score(score)
             /\ IF place_apple(grid_size, grown) = {}
                THEN \* line 71 never returns; lines 71 and 75 do not assign
                     /\ hung' = TRUE
                     /\ UNCHANGED <<snake, apple, game_over>>
                ELSE /\ apple' \in place_apple(grid_size, grown)
                     /\ snake' = grown
                     /\ UNCHANGED <<game_over, hung>>
        ELSE /\ snake' = pop(grown)
             /\ UNCHANGED <<apple, score, game_over, hung>>

\* move_snake without lines 46-47 (mutant).
move_snake_no_guard ==
    /\ ~hung
    /\ move_snake_body(MaxLen)
    /\ last' = [op |-> "move_snake", arg |-> "", pre |-> State]
    /\ UNCHANGED <<grid_size, direction, speed>>

\* move_snake, its eating moves explored for snakes shorter than cap.
move_snake_upto(cap) ==
    /\ ~hung
    /\ IF game_over
       THEN UNCHANGED <<snake, apple, score, game_over, hung>>
       ELSE move_snake_body(cap)
    /\ last' = [op |-> "move_snake", arg |-> "", pre |-> State]
    /\ UNCHANGED <<grid_size, direction, speed>>

move_snake == move_snake_upto(MaxLen)

\* move_snake as a function of the session state s it is called in: the set
\* of session states it can return with, one for each cell place_apple can
\* return (none when place_apple does not return). No bound on the length.
move_snake_results(s) ==
    IF s.game_over
    THEN {s}
    ELSE LET nh == new_head(s.snake[1], s.direction)
             grown == <<nh>> \o s.snake
         IN  IF collision(nh, s.snake, s.grid_size)
             THEN {[s EXCEPT !.game_over = TRUE]}
             ELSE IF nh = s.apple
             THEN {[s EXCEPT !.score = add_score(s.score), !.apple = a, !.snake = grown] :
                        a \in place_apple(s.grid_size, grown)}
             ELSE {[s EXCEPT !.snake = pop(grown)]}

\* turn_direction(new_dir) as a function of the session state s.
turn_direction_result(s, new_dir) ==
    [s EXCEPT !.direction = next_direction(s.direction, new_dir)]

\* ----------------------------------------------------------- specification
\* Line 172: the Restart button calls init_game(st.session_state.grid_size).
Restart == init_game(grid_size)

Next ==
    \/ Restart /\ UNCHANGED race
    \/ \E d \in Directions : turn_direction(d) /\ UNCHANGED race
    \/ move_snake /\ UNCHANGED race

Spec == Init /\ [][Next]_vars

\* One game: the first init_game, then only direction buttons and ticks, with
\* no Restart in between.  A Restart leaves a state Init already holds (up to
\* `last.pre`), so the games of Spec are those of PlaySpec, begun again.
PlayNext ==
    \/ \E d \in Directions : turn_direction(d) /\ UNCHANGED race
    \/ move_snake /\ UNCHANGED race

PlaySpec == Init /\ [][PlayNext]_vars

\* ------------------------------------------------------- a game played out
\* One way of playing on the 4 x 4 grid: the player steers the head along a
\* closed tour of the 16 cells, pressing a direction button only when the
\* tour turns and Step otherwise. The food is placed as place_apple may.
Tour ==
    << <<0, 0>>, <<1, 0>>, <<2, 0>>, <<3, 0>>, <<3, 1>>, <<3, 2>>, <<3, 3>>, <<2, 3>>,
       <<2, 2>>, <<2, 1>>, <<1, 1>>, <<1, 2>>, <<1, 3>>, <<0, 3>>, <<0, 2>>, <<0, 1>> >>

\* The cell after c on the tour.
TourNext(c) ==
    LET i == CHOOSE k \in 1..Len(Tour) : Tour[k] = c
    IN  Tour[(i % Len(Tour)) + 1]

\* The direction that takes the head from c to the next cell of the tour.
TourDirection(c) == CHOOSE d \in Directions : new_head(c, d) = TourNext(c)

TourInit == race = NoRace /\ InitState(Len(Tour) \div 4)

\* Lines 163-182: a direction button calls turn_direction.
TourTurn ==
    /\ direction # TourDirection(snake[1])
    /\ turn_direction(TourDirection(snake[1]))

\* Lines 189 and 257-258: the Step button calls move_snake.
TourStep ==
    /\ direction = TourDirection(snake[1])
    /\ move_snake_upto(Len(Tour))

TourNextStep ==
    \/ TourTurn /\ UNCHANGED race
    \/ TourStep /\ UNCHANGED race

TourSpec == TourInit /\ [][TourNextStep]_vars

\* ------------------------------------------------- two calls at the same time
\* One turn_direction(new_dir) and one move_snake() running at once, each
\* step one read or one write of st.session_state together with the local
\* computation that follows it. race.t and race.m are the line each call is
\* at; the other fields of race are the calls' local variables.
Finished == race.t = "done" /\ race.m = "done"

StartRace(new_dir) ==
    /\ ~hung
    /\ race.n < MaxRaces
    /\ (race.t = "idle" /\ race.m = "idle") \/ Finished
    /\ race' = [NoRace EXCEPT !.t = "39", !.m = "46", !.n = race.n + 1, !.new_dir = new_dir]
    /\ last' = [op |-> "race", arg |-> new_dir, pre |-> State]
    /\ UNCHANGED <<grid_size, snake, direction, apple, score, game_over, speed, hung>>

\* Lines 39-41: cur = st.session_state.direction, then the test on cur.
turn_39 ==
    /\ race.t = "39"
    /\ race' = [race EXCEPT
            !.t = IF race.new_dir = direction \/ race.new_dir = opposites(direction)
                  THEN "done" ELSE "42"]
    /\ UNCHANGED <<grid_size, snake, direction, apple, score, game_over, speed, hung, last>>

\* Line 42: st.session_state.direction = new_dir.
turn_42 ==
    /\ race.t = "42"
    /\ direction' = race.new_dir
    /\ race' = [race EXCEPT !.t = "done"]
    /\ UNCHANGED <<grid_size, snake, apple, score, game_over, speed, hung, last>>

\* Lines 46-47: if st.session_state.game_over: return.
move_46 ==
    /\ race.m = "46"
    /\ race' = [race EXCEPT !.m = IF game_over THEN "done" ELSE "49"]
    /\ UNCHANGED <<grid_size, snake, direction, apple, score, game_over, speed, hung, last>>

\* Lines 49-50: snake = st.session_state.snake.copy().
move_49 ==
    /\ race.m = "49"
    /\ race' = [race EXCEPT !.m = "51", !.snake = snake]
    /\ UNCHANGED <<grid_size, snake, direction, apple, score, game_over, speed, hung, last>>

\* Lines 51-59: d = st.session_state.direction, then new_head from d.
move_51 ==
    /\ race.m = "51"
    /\ race' = [race EXCEPT !.m = "61", !.d = direction,
                             !.new_head = new_head(race.snake[1], direction)]
    /\ UNCHANGED <<grid_size, snake, direction, apple, score, game_over, speed, hung, last>>

\* Lines 61-64 and 68: grid = st.session_state.grid_size, the collision
\* test, and snake.insert(0, new_head) when it does not fire.
move_61 ==
    /\ race.m = "61"
    /\ race' = IF collision(race.new_head, race.snake, grid_size)
               THEN [race EXCEPT !.m = "65"]
               ELSE [race EXCEPT !.m = "69", !.grid = grid_size,
                                 !.snake = <<race.new_head>> \o race.snake]
    /\ UNCHANGED <<grid_size, snake, direction, apple, score, game_over, speed, hung, last>>

\* Lines 65-66: st.session_state.game_over = True; return.
move_65 ==
    /\ race.m = "65"
    /\ game_over' = TRUE
    /\ race' = [NoRace EXCEPT !.t = race.t, !.m = "done", !.n = race.n, !.new_dir = race.new_dir]
    /\ UNCHANGED <<grid_size, snake, direction, apple, score, speed, hung, last>>

\* Lines 69 and 72-73: the test on st.session_state.apple, and snake.pop()
\* when the head is not on it.
move_69 ==
    /\ race.m = "69"
    /\ race.new_head = apple => Len(race.snake) <= MaxLen
    /\ race' = IF race.new_head = apple
               THEN [race EXCEPT !.m = "70r"]
               ELSE [race EXCEPT !.m = "75", !.snake = pop(race.snake)]
    /\ UNCHANGED <<grid_size, snake, direction, apple, score, game_over, speed, hung, last>>

\* Line 70, the read of st.session_state.score += 1.
move_70r ==
    /\ race.m = "70r"
    /\ race' = [race EXCEPT !.m = "70w", !.score = score]
    /\ UNCHANGED <<grid_size, snake, direction, apple, score, game_over, speed, hung, last>>

\* Line 70, the write of st.session_state.score += 1.
move_70w ==
    /\ race.m = "70w"
    /\ score' = add_score(race.score)
    /\ race' = [race EXCEPT !.m = "71", !.score = 0]
    /\ UNCHANGED <<grid_size, snake, direction, apple, game_over, speed, hung, last>>

\* Line 71: st.session_state.apple = place_apple(grid, snake).
move_71 ==
    /\ race.m = "71"
    /\ IF place_apple(race.grid, race.snake) = {}
       THEN hung' = TRUE /\ UNCHANGED <<apple, race>>
       ELSE /\ apple' \in place_apple(race.grid, race.snake)
            /\ race' = [race EXCEPT !.m = "75"]
            /\ UNCHANGED hung
    /\ UNCHANGED <<grid_size, snake, direction, score, game_over, speed, last>>

\* Line 75 followed by st.session_state.direction = d, the direction read
\* at line 51 (mutant).
move_75_and_direction ==
    /\ race.m = "75"
    /\ snake' = race.snake
    /\ direction' = race.d
    /\ race' = [NoRace EXCEPT !.t = race.t, !.m = "done", !.n = race.n, !.new_dir = race.new_dir]
    /\ UNCHANGED <<grid_size, apple, score, game_over, speed, hung, last>>

\* Line 75: st.session_state.snake = snake.
move_75 ==
    /\ race.m = "75"
    /\ snake' = race.snake
    /\ race' = [NoRace EXCEPT !.t = race.t, !.m = "done", !.n = race.n, !.new_dir = race.new_dir]
    /\ UNCHANGED <<grid_size, direction, apple, score, game_over, speed, hung, last>>

RaceInit == race = NoRace /\ \E g \in GridSizes : InitState(g)

RaceNext ==
    \/ \E d \in Directions : StartRace(d)
    \/ turn_39
    \/ turn_42
    \/ move_46
    \/ move_49
    \/ move_51
    \/ move_61
    \/ move_65
    \/ move_69
    \/ move_70r
    \/ move_70w
    \/ move_71
    \/ move_75

RaceSpec == RaceInit /\ [][RaceNext]_vars

\* The states the two serial orders of move_snake() and
\* turn_direction(new_dir) can end in when started in session state s.
SerialResults(s, new_dir) ==
    {turn_direction_result(r, new_dir) : r \in move_snake_results(s)}
        \cup move_snake_results(turn_direction_result(s, new_dir))

\* ------------------------------------------------- vocabulary of the claims
\* A cell inside [0,g) x [0,g).
InGrid(c, g) == c[1] >= 0 /\ c[1] < g /\ c[2] >= 0 /\ c[2] < g

\* The cells of s are pairwise distinct.
NoDup(s) == \A i, j \in 1..Len(s) : i # j => s[i] # s[j]

\* spec.md's heading delta: UP y-1, DOWN y+1, LEFT x-1, RIGHT x+1.
Delta ==
    [d \in Directions |->
        CASE d = "UP" -> <<0, -1>>
          [] d = "DOWN" -> <<0, 1>>
          [] d = "LEFT" -> <<-1, 0>>
          [] d = "RIGHT" -> <<1, 0>>]

Shifted(c, d) == <<c[1] + Delta[d][1], c[2] + Delta[d][2]>>

\* spec.md's opposite headings.
OppositePairs ==
    {<<"UP", "DOWN">>, <<"DOWN", "UP">>, <<"LEFT", "RIGHT">>, <<"RIGHT", "LEFT">>}

\* The last step was tick() called in a live state.
LiveTick == last.op = "move_snake" /\ ~last.pre.game_over

\* The head the spec's tick computes from the state the last step ran in.
TickHead == Shifted(last.pre.snake[1], last.pre.direction)

\* The last step left snake, score and food as they were.
TickKept ==
    /\ snake = last.pre.snake
    /\ score = last.pre.score
    /\ apple = last.pre.apple

\* What C1 promises of the state right after reset.
ResetPost ==
    /\ Len(snake) = 3
    /\ NoDup(snake)
    /\ \A i \in 1..Len(snake) : InGrid(snake[i], grid_size)
    /\ direction = "RIGHT"
    /\ score = 0
    /\ game_over = FALSE
    /\ InGrid(apple, grid_size)
    /\ apple \notin Cells(snake)

C2_WallCollision ==
    (LiveTick /\ ~InGrid(TickHead, last.pre.grid_size)) => (game_over /\ TickKept)

C2_Witness ==
    /\ LiveTick
    /\ last.pre.grid_size >= 4
    /\ last.pre.direction = "RIGHT"
    /\ last.pre.snake[1][1] = last.pre.grid_size - 1
    /\ game_over

\* C3: a tick whose new head is a cell of the snake, the tail cell included,
\* sets terminal and leaves snake, score and food unchanged; no tick moves
\* the head into the cell the tail occupied before it.
C3_SelfCollision ==
    /\ (LiveTick /\ TickHead \in Cells(last.pre.snake)) => (game_over /\ TickKept)
    /\ (LiveTick /\ snake # last.pre.snake) =>
            snake[1] # last.pre.snake[Len(last.pre.snake)]

C3_Witness ==
    /\ LiveTick
    /\ InGrid(TickHead, last.pre.grid_size)
    /\ TickHead = last.pre.snake[Len(last.pre.snake)]
    /\ game_over

\* C4: a live tick whose new head is in bounds, off the snake and not the
\* food yields the new head followed by the old snake without its last cell:
\* same length, score and food unchanged, terminal still false.
C4_PlainMove ==
    (/\ LiveTick
     /\ InGrid(TickHead, last.pre.grid_size)
     /\ TickHead \notin Cells(last.pre.snake)
     /\ TickHead # last.pre.apple)
    => /\ snake = <<TickHead>> \o SubSeq(last.pre.snake, 1, Len(last.pre.snake) - 1)
       /\ Len(snake) = Len(last.pre.snake)
       /\ score = last.pre.score
       /\ apple = last.pre.apple
       /\ game_over = FALSE

C4_Witness ==
    /\ LiveTick
    /\ last.pre.direction = "UP"
    /\ snake[1] = <<last.pre.snake[1][1], last.pre.snake[1][2] - 1>>
    /\ Len(snake) = Len(last.pre.snake)
    /\ ~game_over

\* C5: a live tick whose new head is the food cell, once it returns, yields
\* the new head followed by the whole old snake, score + 1, and a new food
\* cell that is no cell of the grown snake.
C5_EatingMove ==
    (LiveTick /\ TickHead = last.pre.apple /\ ~hung)
    => /\ snake = <<TickHead>> \o last.pre.snake
       /\ Len(snake) = Len(last.pre.snake) + 1
       /\ score = last.pre.score + 1
       /\ apple \notin Cells(snake)
       /\ game_over = FALSE

C5_Witness ==
    /\ LiveTick
    /\ ~hung
    /\ snake[1] = last.pre.apple
    /\ score = last.pre.score + 1

\* C6: setHeading(requested) keeps the heading when requested is the current
\* heading or its opposite, and sets it to requested otherwise.
C6_SetHeading ==
    last.op = "turn_direction" =>
        direction =
            IF \/ last.arg = last.pre.direction
               \/ <<last.pre.direction, last.arg>> \in OppositePairs
            THEN last.pre.direction
            ELSE last.arg

C6_Witness ==
    /\ last.op = "turn_direction"
    /\ <<last.pre.direction, last.arg>> \in OppositePairs
    /\ direction = last.pre.direction
    /\ direction # "RIGHT"

\* C7: in every reachable live state, whatever setHeading calls were made
\* since the last tick, the next tick never computes a new head equal to
\* the snake's second cell. Stated for the grids that hold the initial snake.
C7_NeverIntoNeck ==
    (LiveTick /\ last.pre.grid_size >= 4) => TickHead # last.pre.snake[2]

\* C8: in every reachable state the food cell is no cell of the snake.
C8_FoodOffSnake == apple \notin Cells(snake)

C8_Witness ==
    /\ score > 0
    /\ last.op = "move_snake"
    /\ apple # last.pre.apple
    /\ \E i \in 1..Len(snake) :
            snake[i][1] = apple[1] /\ (snake[i][2] = apple[2] + 1 \/ snake[i][2] = apple[2] - 1)

\* C9: in every reachable state the snake has no duplicate cells and has
\* length >= 3.
C9_SnakeShape == NoDup(snake) /\ Len(snake) >= 3

C9_Witness ==
    /\ LiveTick
    /\ last.pre.snake[2] # TickHead
    /\ TickHead \in Cells(last.pre.snake)
    /\ Len(snake) > 3

\* C10: once terminal is true a further tick changes none of snake, score
\* and food.
C10_TerminalTick ==
    (last.op = "move_snake" /\ last.pre.game_over) => (TickKept /\ game_over)

C10_Witness ==
    /\ last.op = "move_snake"
    /\ last.pre.game_over
    /\ InGrid(TickHead, grid_size)
    /\ TickHead \notin Cells(snake)

\* C11: once a tick has set terminal, no tick or setHeading makes it false
\* again; reset makes it false, and reset can be called in any state in
\* which a call can be made at all.
C11_TerminalUntilReset ==
    /\ (last.op \in {"move_snake", "turn_direction"} /\ last.pre.game_over) => game_over
    /\ last.op = "init_game" => ~game_over
    /\ ~hung => ENABLED Restart

C11_Witness == last.op = "init_game" /\ last.pre.game_over /\ ~game_over

\* C13: reset with gridSize < 3 is rejected or clamped; it never leaves a
\* state whose snake has a cell outside [0,gridSize) x [0,gridSize).
C13_SmallGridRefused ==
    (last.op = "init_game" /\ last.arg < 3) =>
        \A i \in 1..Len(snake) : InGrid(snake[i], grid_size)

\* C14: the score is a non-negative integer; setHeading never changes it; a
\* tick adds exactly 1 when it is a live tick whose new head is the food
\* cell and 0 otherwise, so it never decreases between two resets.
C14_ScoreSteps ==
    /\ score \in Nat
    /\ last.op = "turn_direction" => score = last.pre.score
    /\ last.op = "move_snake" =>
            score = last.pre.score + (IF LiveTick /\ TickHead = last.pre.apple THEN 1 ELSE 0)

C14_Witness ==
    /\ last.op = "move_snake"
    /\ last.pre.direction # "RIGHT"
    /\ TickHead = last.pre.apple
    /\ score = last.pre.score + 1

\* C15: reset(gridSize) places the snake at [(m,m),(m-1,m),(m-2,m)] with
\* m = gridSize div 2; [(2,2),(1,2),(0,2)] for gridSize = 5 (and 4).
C15_ResetSnake ==
    last.op = "init_game" =>
        /\ snake[1] = <<grid_size \div 2, grid_size \div 2>>
        /\ snake[2] = <<(grid_size \div 2) - 1, grid_size \div 2>>
        /\ snake[3] = <<(grid_size \div 2) - 2, grid_size \div 2>>
        /\ Len(snake) = 3
        /\ grid_size \in {4, 5} => snake = <<<<2, 2>>, <<1, 2>>, <<0, 2>>>>

C15_Witness ==
    /\ last.op = "init_game"
    /\ grid_size = last.arg
    /\ grid_size \in {4, 5}
    /\ snake[1] = <<2, 2>>

\* C16: setHeading changes nothing but the heading; tick never changes
\* heading, grid size or speed; grid size is fixed from one reset to the next.
C16_Frames ==
    /\ last.op = "turn_direction" =>
            /\ snake = last.pre.snake
            /\ apple = last.pre.apple
            /\ score = last.pre.score
            /\ game_over = last.pre.game_over
            /\ grid_size = last.pre.grid_size
            /\ speed = last.pre.speed
    /\ last.op = "move_snake" =>
            /\ direction = last.pre.direction
            /\ grid_size = last.pre.grid_size
            /\ speed = last.pre.speed

C16_Witness ==
    /\ last.op = "turn_direction"
    /\ direction # last.pre.direction
    /\ game_over
    /\ snake = last.pre.snake

\* C18: in every state between calls, score == length(snake) - 3.
C18_ScoreIsGrowth == ~hung => score = Len(snake) - 3

C18_Witness == ~hung /\ score = 1 /\ Len(snake) = 4 /\ game_over

\* Two cells that differ by exactly 1 on exactly one axis.
Adjacent(a, b) ==
    \/ a[1] = b[1] /\ (a[2] = b[2] + 1 \/ b[2] = a[2] + 1)
    \/ a[2] = b[2] /\ (a[1] = b[1] + 1 \/ b[1] = a[1] + 1)

\* Every snake cell and the food inside the grid, consecutive cells adjacent.
OnGridAndConnected ==
    /\ \A i \in 1..Len(snake) : InGrid(snake[i], grid_size)
    /\ InGrid(apple, grid_size)
    /\ \A i \in 1..(Len(snake) - 1) : Adjacent(snake[i], snake[i + 1])

ResultsAgree ==
    /\ (last.op = "move_snake" /\ ~hung) => State \in move_snake_results(last.pre)
    /\ last.op = "turn_direction" => State = turn_direction_result(last.pre, last.arg)
    /\ (~hung /\ Len(snake) < MaxLen) =>
            \A r \in move_snake_results(State) : ENABLED (move_snake /\ State' = r)

\* The session states k returned ticks after one of the states of S.
RECURSIVE AfterTicks(_, _)
AfterTicks(S, k) ==
    IF k = 0 THEN S
    ELSE AfterTicks(UNION {move_snake_results(s) : s \in S}, k - 1)

\* C20: from any reachable live state, gridSize consecutive ticks with no
\* heading change and no reset in between end with terminal true, whatever
\* cells the food is placed on.
C20_StraightRunEnds ==
    (~game_over /\ ~hung) => \A s \in AfterTicks({State}, grid_size) : s.game_over

\* gridSize - 1 ticks are not always enough.
C20_Witness ==
    /\ ~game_over
    /\ ~hung
    /\ grid_size >= 4
    /\ \E s \in AfterTicks({State}, grid_size - 1) : ~s.game_over
    /\ \E s \in AfterTicks({State}, grid_size) : s.game_over

\* C12: in no reachable state does the snake occupy every cell of the grid,
\* and no tick is stuck in place_apple with every cell occupied.
C12_NeverFull == ~hung /\ ~(Grid(grid_size) \subseteq Cells(snake))

\* C17 as stated: a tick and a setHeading run concurrently, interleaved at
\* their reads and writes, end in a state that neither serial order
\* produces. Asserted here of the pairs that have both returned.
C17_RaceDiverges ==
    (last.op = "race" /\ Finished) => State \notin SerialResults(last.pre, last.arg)

\* C17 amended: whatever the interleaving, once both calls have returned the
\* state is one that tick-then-setHeading or setHeading-then-tick produces.
C17_RaceSerializable ==
    (last.op = "race" /\ Finished) => State \in SerialResults(last.pre, last.arg)

\* A pair in which tick read the heading setHeading had just written.
C17_Witness ==
    /\ last.op = "race"
    /\ Finished
    /\ ~game_over
    /\ direction # last.pre.direction
    /\ snake[1] = Shifted(last.pre.snake[1], direction)

====
